---- MODULE Spec2Model ----
(***************************************************************************)
(* cchat: the relay server (src/cchat/server.py), the shared data model    *)
(* (src/cchat/models.py) and the client's receive loop and mirror          *)
(* (src/cchat/client.py), as one state machine.                            *)
(*                                                                         *)
(* The server is a single asyncio event loop: code between two awaits is   *)
(* one atomic step, and control can change hands only at an await.  Every  *)
(* action below is such a step of one coroutine.  Timestamps take part in  *)
(* no decision of the code and are left out of the records.                *)
(***************************************************************************)
EXTENDS Integers, Sequences, FiniteSets, TLC

VARIABLES
    status,        \* server process: "init" | "running" | "crashed" | "stopped"
    history_path,  \* ChatServer._history_path is set (TRUE) or None (FALSE)
    store,         \* content of the history file
    messages,      \* ChatServer._messages, the ledger
    next_id,       \* ChatServer._next_id
    write_failed,  \* the last _save_history printed "Failed to write history file"
    clients,       \* ChatServer._clients, the registry
    pc,            \* position of each connection's handler coroutine
    link,          \* transport of each connection: "none" | "open" | "closed"
    raw,           \* the frame each handler's receive loop yielded last
    wire,          \* frames in flight, server -> client
    pending,       \* send tasks created by asyncio.gather, not yet run (FIFO)
    cpc,           \* position of each client: "off" | "hello" | "listen" | "closed"
    mirror,        \* ClientState.messages of each client
    connection_ok, \* ChatApp._connection_ok of each client
    nframes,       \* number of frames received so far (bounds the run)
    now,           \* the wall clock, datetime.now()
    last_activity,          \* ChatApp._last_activity
    user_scrolled_up,       \* ChatApp._user_scrolled_up
    pending_message_count,  \* ChatApp._pending_message_count
    pending_start_index,    \* ChatApp._pending_start_index
    selected_message_id,    \* ChatApp._selected_message_id
    reaction_menu,          \* ChatApp._reaction_menu: None or the menu's message_id
    reconnect_attempted,    \* ChatApp._reconnect_attempted
    restart_requested,      \* ChatApp._restart_requested
    at_bottom,     \* the chat log shows its end: log.scroll_y >= log.max_scroll_y
    auto_scroll,   \* log.auto_scroll of the chat log
    rendered,      \* the message bodies written to the chat log by the last render
    input_text,    \* content of the compose input
    sent,          \* frames the client has handed to websocket.send
    listener_task  \* listener_task of run_client: "none" | "running" | "done", and
                   \* after the finally clause "cancelled" (it ran) | "awaited" (it was done)

vars == <<status, history_path, store, messages, next_id, write_failed, clients, pc, link,
          raw, wire, pending, cpc, mirror, connection_ok, nframes, now, last_activity,
          user_scrolled_up, pending_message_count, pending_start_index, selected_message_id,
          reaction_menu, reconnect_attempted, restart_requested, at_bottom, auto_scroll,
          rendered, input_text, sent, listener_task>>

serverVars == <<status, history_path, store, messages, next_id, write_failed>>

\* The view state of ChatApp and its widgets.
viewVars == <<last_activity, user_scrolled_up, pending_message_count, pending_start_index,
              selected_message_id, reaction_menu, reconnect_attempted, restart_requested,
              at_bottom, auto_scroll, rendered, input_text, sent>>

clientVars == <<cpc, mirror, connection_ok, now, listener_task, viewVars>>

(***************************************************************************)
(* Bounds and input alphabets.                                             *)
(***************************************************************************)
MaxFrames == 4        \* frames received in a run of Spec
MaxSyncFrames == 3    \* ... of SpecSync
MaxDiskFrames == 3    \* ... of SpecDisk
MaxFailFrames == 2    \* ... of SpecFail
MaxStoreFrames == 2   \* ... of SpecStore

Conns == {"c1", "c2"}
Users == {"ann", "bob"}
Emojis == {"+1"}
Ciphertexts == {"ct"}

(***************************************************************************)
(* Sequence helpers.                                                       *)
(***************************************************************************)
RemoveAt(s, i) == SubSeq(s, 1, i - 1) \o SubSeq(s, i + 1, Len(s))

SeqMax(s) == CHOOSE x \in {s[i] : i \in DOMAIN s} : \A j \in DOMAIN s : s[j] <= x

IsPrefix(s, t) == Len(s) <= Len(t) /\ \A i \in DOMAIN s : s[i] = t[i]

Ids(msgs) == [i \in DOMAIN msgs |-> msgs[i].id]

(***************************************************************************)
(* models.py                                                               *)
(***************************************************************************)
Reaction(emoji, user) == [emoji |-> emoji, user |-> user]

ChatMessage(id, user, ciphertext, reactions) ==
    [id |-> id, user |-> user, ciphertext |-> ciphertext, reactions |-> reactions]

\* ChatMessage.to_payload: a dict of the fields, each reaction as its __dict__.
to_payload(m) ==
    [id |-> m.id, user |-> m.user, ciphertext |-> m.ciphertext,
     reactions |-> [i \in DOMAIN m.reactions |->
                      [emoji |-> m.reactions[i].emoji, user |-> m.reactions[i].user]]]

\* Reaction(**r) raises TypeError unless r is a dict with exactly the fields.
ReactionOk(r) == DOMAIN r = {"emoji", "user"}

\* ChatMessage.from_payload raises AttributeError when the entry is no dict,
\* KeyError when a field is missing and TypeError on a malformed reaction.
from_payload_error(p) ==
    IF "nondict" \in DOMAIN p THEN "AttributeError"
    ELSE IF ~({"id", "user", "ciphertext"} \subseteq DOMAIN p) THEN "KeyError"
    ELSE IF "reactions" \in DOMAIN p
            /\ \E i \in DOMAIN p.reactions : ~ReactionOk(p.reactions[i])
         THEN "TypeError"
    ELSE "none"

from_payload(p) ==
    ChatMessage(p.id, p.user, p.ciphertext,
                IF "reactions" \in DOMAIN p
                THEN [i \in DOMAIN p.reactions |->
                        Reaction(p.reactions[i].emoji, p.reactions[i].user)]
                ELSE <<>>)

(***************************************************************************)
(* Content of the history file.  A file is absent, unreadable (OSError),   *)
(* not decodable as text (UnicodeDecodeError) or holds a text; a text is   *)
(* no JSON, a JSON value that is no object, or an object whose "messages"  *)
(* and "next_id" entries are present or not, well-typed or not.            *)
(***************************************************************************)
NoFile == [kind |-> "nofile"]
Unreadable == [kind |-> "oserror"]
Undecodable == [kind |-> "undecodable"]
InvalidJson == [kind |-> "text", json |-> [kind |-> "invalid"]]
JsonArray == [kind |-> "text", json |-> [kind |-> "array"]]
JsonObject(obj) == [kind |-> "text", json |-> [kind |-> "object", obj |-> obj]]

JInt(n) == [kind |-> "int", v |-> n]
JNull == [kind |-> "null"]
JList(items) == [kind |-> "list", items |-> items]
NonDict == [nondict |-> TRUE]

\* A message id that is JSON null: ChatMessage takes it unchecked
\* (a dataclass validates nothing), and arithmetic on it raises TypeError.
NullId == -1

\* What _save_history writes: json.dumps of next_id and the payloads.
Snapshot(nid, msgs) ==
    JsonObject([next_id |-> JInt(nid),
                messages |-> JList([i \in DOMAIN msgs |-> to_payload(msgs[i])])])

(***************************************************************************)
(* ChatServer._load_history, on the state __init__ has set (an empty       *)
(* ledger, next_id = 1).  raised names the exception that leaves the       *)
(* method, "none" when it returns.                                         *)
(***************************************************************************)
Loaded(raised, msgs, nid) == [raised |-> raised, messages |-> msgs, next_id |-> nid]

\* The first entry, in list order, that from_payload fails on (0: none).
FirstBadEntry(items) ==
    IF \E i \in DOMAIN items : from_payload_error(items[i]) # "none"
    THEN CHOOSE i \in DOMAIN items :
            /\ from_payload_error(items[i]) # "none"
            /\ \A j \in 1..(i - 1) : from_payload_error(items[j]) = "none"
    ELSE 0

Caught(exc) == exc \in {"JSONDecodeError", "KeyError", "TypeError", "ValueError"}

\* (mutant) the next id is the stored one, whatever ids were loaded
LoadObjectStoredNextId(obj) ==
    LET given == IF "messages" \in DOMAIN obj THEN obj.messages ELSE JList(<<>>)
        nid == IF "next_id" \in DOMAIN obj THEN obj.next_id ELSE JInt(1)
    IN  IF given.kind # "list" \/ FirstBadEntry(given.items) # 0
        THEN Loaded("none", <<>>, 1)
        ELSE Loaded("none",
                    [i \in DOMAIN given.items |-> from_payload(given.items[i])],
                    IF nid.kind = "int" THEN nid.v ELSE 1)

LoadObject(obj) ==
    LET given == IF "messages" \in DOMAIN obj THEN obj.messages ELSE JList(<<>>)
    IN  IF given.kind # "list" THEN Loaded("none", <<>>, 1)      \* TypeError, caught
        ELSE
        LET bad == FirstBadEntry(given.items)
        IN  IF bad # 0
            THEN LET exc == from_payload_error(given.items[bad])
                 IN  Loaded(IF Caught(exc) THEN "none" ELSE exc, <<>>, 1)
            ELSE
            LET msgs == [i \in DOMAIN given.items |-> from_payload(given.items[i])]
            IN  IF msgs # <<>>
                THEN IF \E i \in DOMAIN msgs : msgs[i].id = NullId
                     THEN Loaded("none", msgs, 1)                 \* TypeError, caught
                     ELSE Loaded("none", msgs, SeqMax(Ids(msgs)) + 1)
                ELSE LET nid == IF "next_id" \in DOMAIN obj THEN obj.next_id ELSE JInt(1)
                     IN  IF nid.kind = "int"
                         THEN Loaded("none", msgs, nid.v)
                         ELSE Loaded("none", msgs, 1)             \* TypeError, caught

_load_history(path, file) ==
    IF ~path THEN Loaded("none", <<>>, 1)
    ELSE IF file.kind = "nofile" THEN Loaded("none", <<>>, 1)
    ELSE IF file.kind = "oserror" THEN Loaded("none", <<>>, 1)
    ELSE IF file.kind = "undecodable" THEN Loaded("UnicodeDecodeError", <<>>, 1)
    ELSE IF file.json.kind = "invalid" THEN Loaded("none", <<>>, 1)
    ELSE IF file.json.kind = "array" THEN Loaded("AttributeError", <<>>, 1)
    ELSE LoadObject(file.json.obj)

(***************************************************************************)
(* ChatServer._save_history.  The write succeeds, fails before the file is *)
(* touched (mkdir or open raises OSError) or fails after open has          *)
(* truncated it; the OSError is caught in each case.                       *)
(***************************************************************************)
WriteOutcomes == {"ok", "failed", "truncated"}

\* (mutant) the mutation is not persisted
SaveNothing(path, file, outcome, nid, msgs) == file

_save_history(path, file, outcome, nid, msgs) ==
    IF ~path THEN file
    ELSE IF outcome = "ok" THEN Snapshot(nid, msgs)
    ELSE IF outcome = "truncated" THEN InvalidJson
    ELSE file

(***************************************************************************)
(* Frames a peer submits (client -> server) and events the server sends.   *)
(* "" and 0 stand for a field that is missing or falsy.                    *)
(***************************************************************************)
InvalidFrame == [json |-> "invalid"]
ArrayFrame == [json |-> "array"]
OtherFrame == [json |-> "object", type |-> "other"]
MessageFrame(user, ciphertext) ==
    [json |-> "object", type |-> "message", user |-> user, ciphertext |-> ciphertext]
ReactionFrame(message_id, emoji, user, remove) ==
    [json |-> "object", type |-> "reaction", message_id |-> message_id,
     emoji |-> emoji, user |-> user, remove |-> remove]

NoFrame == [json |-> "none"]

\* The frames a peer may submit when the ledger's next id is nid.
Frames(nid) ==
    {InvalidFrame, ArrayFrame, OtherFrame}
    \cup {MessageFrame(u, c) : u \in Users \cup {""}, c \in Ciphertexts \cup {""}}
    \cup {ReactionFrame(m, e, u, r) :
            m \in 0..nid, e \in Emojis \cup {""}, u \in Users \cup {""}, r \in BOOLEAN}

Hello(n) == [type |-> "hello", message_count |-> n]
History(msgs) ==
    [type |-> "history", messages |-> [i \in DOMAIN msgs |-> to_payload(msgs[i])]]
MessageEvent(m) == [type |-> "message", message |-> to_payload(m)]
ReactionEvent(message_id, r, action) ==
    [type |-> "reaction", message_id |-> message_id,
     reaction |-> [emoji |-> r.emoji, user |-> r.user], action |-> action]
Presence(n) == [type |-> "presence", connected_clients |-> n]

(***************************************************************************)
(* ChatServer._broadcast: nothing when the registry is empty; otherwise    *)
(* gather creates one send task per registered connection (list(clients)   *)
(* is taken now) and the caller waits for them all.                        *)
(***************************************************************************)
Job(ev, targets, owner) == [ev |-> ev, targets |-> targets, owner |-> owner]

_broadcast(q, regs, ev, owner) ==
    IF regs = {} THEN q ELSE Append(q, Job(ev, regs, owner))

\* (mutant) the sends are given up when one of them raises
SendsUntilFailure(w, lk, job) ==
    IF \E t \in job.targets : lk[t] # "open" THEN w
    ELSE [t \in Conns |-> IF t \in job.targets THEN Append(w[t], job.ev) ELSE w[t]]

\* (mutant) only the connection of the handler that broadcasts is sent to
SendsToOwner(w, lk, job) ==
    [t \in Conns |-> IF t = job.owner /\ t \in job.targets /\ lk[t] = "open"
                     THEN Append(w[t], job.ev) ELSE w[t]]

\* The send tasks of one job run: a send on a closed transport raises, and
\* gather(return_exceptions=True) keeps the exception as a result.
Sends(w, lk, job) ==
    [t \in Conns |-> IF t \in job.targets /\ lk[t] = "open"
                     THEN Append(w[t], job.ev) ELSE w[t]]

\* Where the owner of a finished broadcast goes on.
AfterBroadcast(at) ==
    IF at \in {"presence", "bcast"} THEN "recv" ELSE "done"

(***************************************************************************)
(* Ledger lookups of _handle_reaction.                                      *)
(***************************************************************************)
\* next((m for m in self._messages if m.id == message_id), None): index or 0
FindMessage(msgs, message_id) ==
    IF \E i \in DOMAIN msgs : msgs[i].id = message_id
    THEN CHOOSE i \in DOMAIN msgs :
            /\ msgs[i].id = message_id
            /\ \A j \in 1..(i - 1) : msgs[j].id # message_id
    ELSE 0

\* the first reaction with that emoji and user: index or 0
FindReaction(reactions, emoji, user) ==
    IF \E i \in DOMAIN reactions : reactions[i].emoji = emoji /\ reactions[i].user = user
    THEN CHOOSE i \in DOMAIN reactions :
            /\ reactions[i].emoji = emoji /\ reactions[i].user = user
            /\ \A j \in 1..(i - 1) :
                  ~(reactions[j].emoji = emoji /\ reactions[j].user = user)
    ELSE 0

HasKey(reactions, emoji, user) == FindReaction(reactions, emoji, user) # 0

(***************************************************************************)
(* ChatServer._handle_message and ChatServer._handle_reaction on the       *)
(* ledger: the ledger and next id they leave, and the event they go on to  *)
(* broadcast (NoEvent: the frame was dropped and nothing was changed).     *)
(***************************************************************************)
NoEvent == [type |-> "none"]

Effect(msgs, nid, ev) == [messages |-> msgs, next_id |-> nid, ev |-> ev]

\* (mutant) a message without ciphertext is accepted
HandleMessageUserOnly(msgs, nid, f) ==
    IF f.user = "" THEN Effect(msgs, nid, NoEvent)
    ELSE LET message == ChatMessage(nid, f.user, f.ciphertext, <<>>)
         IN  Effect(Append(msgs, message), nid + 1, MessageEvent(message))

\* (mutant) the next id is not advanced
HandleMessageNoIncrement(msgs, nid, f) ==
    IF f.user = "" \/ f.ciphertext = "" THEN Effect(msgs, nid, NoEvent)
    ELSE LET message == ChatMessage(nid, f.user, f.ciphertext, <<>>)
         IN  Effect(Append(msgs, message), nid, MessageEvent(message))

_handle_message(msgs, nid, f) ==
    IF f.user = "" \/ f.ciphertext = "" THEN Effect(msgs, nid, NoEvent)
    ELSE LET message == ChatMessage(nid, f.user, f.ciphertext, <<>>)
         IN  Effect(Append(msgs, message), nid + 1, MessageEvent(message))

\* (mutant) a remove takes out every reaction of the key
HandleReactionRemoveAll(msgs, nid, f) ==
    IF f.message_id = 0 \/ f.emoji = "" \/ f.user = "" THEN Effect(msgs, nid, NoEvent)
    ELSE
    LET t == FindMessage(msgs, f.message_id)
    IN  IF t = 0 THEN Effect(msgs, nid, NoEvent)
        ELSE IF f.remove
        THEN LET i == FindReaction(msgs[t].reactions, f.emoji, f.user)
             IN  IF i = 0 THEN Effect(msgs, nid, NoEvent)
                 ELSE Effect([msgs EXCEPT ![t].reactions =
                                 SelectSeq(@, LAMBDA r : ~(r.emoji = f.emoji /\ r.user = f.user))],
                             nid, ReactionEvent(msgs[t].id, msgs[t].reactions[i], "remove"))
        ELSE LET reaction == Reaction(f.emoji, f.user)
             IN  Effect([msgs EXCEPT ![t].reactions = Append(@, reaction)], nid,
                        ReactionEvent(msgs[t].id, reaction, "add"))

_handle_reaction(msgs, nid, f) ==
    IF f.message_id = 0 \/ f.emoji = "" \/ f.user = "" THEN Effect(msgs, nid, NoEvent)
    ELSE
    LET t == FindMessage(msgs, f.message_id)
    IN  IF t = 0 THEN Effect(msgs, nid, NoEvent)
        ELSE IF f.remove
        THEN LET i == FindReaction(msgs[t].reactions, f.emoji, f.user)
             IN  IF i = 0 THEN Effect(msgs, nid, NoEvent)
                 ELSE Effect([msgs EXCEPT ![t].reactions = RemoveAt(@, i)], nid,
                             ReactionEvent(msgs[t].id, msgs[t].reactions[i], "remove"))
        ELSE LET reaction == Reaction(f.emoji, f.user)
             IN  Effect([msgs EXCEPT ![t].reactions = Append(@, reaction)], nid,
                        ReactionEvent(msgs[t].id, reaction, "add"))

\* The dispatch of ChatServer.handler on a frame that parsed to an object.
Dispatch(msgs, nid, f) ==
    IF f.type = "message" THEN _handle_message(msgs, nid, f)
    ELSE IF f.type = "reaction" THEN _handle_reaction(msgs, nid, f)
    ELSE Effect(msgs, nid, NoEvent)

(***************************************************************************)
(* The server process.                                                     *)
(***************************************************************************)
\* ChatServer.__init__ (and main): an exception of _load_history leaves it.
Start ==
    /\ status \in {"init", "stopped"}
    /\ LET r == _load_history(history_path, store)
       IN  /\ status' = IF r.raised = "none" THEN "running" ELSE "crashed"
           /\ messages' = r.messages
           /\ next_id' = r.next_id
    /\ UNCHANGED <<history_path, store, write_failed, clients, pc, link, raw, wire, pending,
                   clientVars, nframes>>

\* The process is stopped: its memory and its connections are gone.
Stop ==
    /\ status = "running"
    /\ status' = "stopped"
    /\ messages' = <<>>
    /\ next_id' = 1
    /\ clients' = {}
    /\ pending' = <<>>
    /\ pc' = [c \in Conns |-> IF pc[c] = "none" THEN "none" ELSE "done"]
    /\ link' = [c \in Conns |-> IF link[c] = "none" THEN "none" ELSE "closed"]
    /\ write_failed' = FALSE
    /\ UNCHANGED <<history_path, store, raw, wire, clientVars, nframes>>

(***************************************************************************)
(* A connection.                                                           *)
(***************************************************************************)
\* websockets.serve accepts a connection and creates its handler task;
\* on the other side run_client waits for the first frame.
Connect(c) ==
    /\ status = "running"
    /\ link[c] = "none"
    /\ link' = [link EXCEPT ![c] = "open"]
    /\ pc' = [pc EXCEPT ![c] = "start"]
    /\ cpc' = [cpc EXCEPT ![c] = "hello"]
    /\ UNCHANGED <<serverVars, clients, raw, wire, pending, mirror, connection_ok, now,
                   listener_task, viewVars, nframes>>

\* The transport is lost or closed by the peer.
CloseLink(c) ==
    /\ link[c] = "open"
    /\ link' = [link EXCEPT ![c] = "closed"]
    /\ UNCHANGED <<serverVars, clients, pc, raw, wire, pending, clientVars, nframes>>

\* The handler coroutine has returned or raised: the library closes the connection.
Ended(lk, c) == [lk EXCEPT ![c] = IF @ = "open" THEN "closed" ELSE @]

(***************************************************************************)
(* ChatServer.register, one action per await.                              *)
(***************************************************************************)
\* clients.add, then send(hello): raises on a closed transport.
RegisterHello(c) ==
    /\ status = "running"
    /\ pc[c] = "start"
    /\ clients' = clients \cup {c}
    /\ IF link[c] = "open"
       THEN /\ wire' = [wire EXCEPT ![c] = Append(@, Hello(Len(messages)))]
            /\ pc' = [pc EXCEPT ![c] = "hello"]
            /\ link' = link
       ELSE /\ wire' = wire
            /\ pc' = [pc EXCEPT ![c] = "done"]
            /\ link' = Ended(link, c)
    /\ UNCHANGED <<serverVars, raw, pending, clientVars, nframes>>

\* send(hello) has returned; the snapshot is taken now and send(history) begins.
RegisterHistory(c) ==
    /\ status = "running"
    /\ pc[c] = "hello"
    /\ IF link[c] = "open"
       THEN /\ wire' = [wire EXCEPT ![c] = Append(@, History(messages))]
            /\ pc' = [pc EXCEPT ![c] = "history"]
            /\ link' = link
       ELSE /\ wire' = wire
            /\ pc' = [pc EXCEPT ![c] = "done"]
            /\ link' = Ended(link, c)
    /\ UNCHANGED <<serverVars, clients, raw, pending, clientVars, nframes>>

\* send(history) has returned: _broadcast_presence.
RegisterPresence(c) ==
    /\ status = "running"
    /\ pc[c] = "history"
    /\ pending' = _broadcast(pending, clients, Presence(Cardinality(clients)), c)
    /\ pc' = [pc EXCEPT ![c] = "presence"]
    /\ UNCHANGED <<serverVars, clients, link, raw, wire, clientVars, nframes>>

\* send(history) raises while it waits on a transport that was lost.
RegisterFail(c) ==
    /\ status = "running"
    /\ pc[c] = "history"
    /\ link[c] = "closed"
    /\ pc' = [pc EXCEPT ![c] = "done"]
    /\ UNCHANGED <<serverVars, clients, link, raw, wire, pending, clientVars, nframes>>

(***************************************************************************)
(* ChatServer.unregister, from the finally clause of ChatServer.handler.   *)
(***************************************************************************)
Unregister(c) ==
    LET rest == clients \ {c}
    IN  /\ clients' = rest
        /\ pending' = _broadcast(pending, rest, Presence(Cardinality(rest)), c)
        /\ pc' = [pc EXCEPT ![c] = IF rest = {} THEN "done" ELSE "unreg"]
        /\ link' = IF rest = {} THEN Ended(link, c) ELSE link

\* async for ends: the transport is closed and nothing is left to read.
LoopEnd(c) ==
    /\ status = "running"
    /\ pc[c] = "recv"
    /\ link[c] = "closed"
    /\ Unregister(c)
    /\ UNCHANGED <<serverVars, raw, wire, clientVars, nframes>>

(***************************************************************************)
(* ChatServer.handler: one pass of the receive loop on frame f, up to the  *)
(* await of the broadcast.  outcome is what the write of the history file  *)
(* does, should the frame come to one.                                     *)
(***************************************************************************)
Receive(c, f, outcome) ==
    /\ status = "running"
    /\ pc[c] = "recv"
    /\ link[c] = "open"
    /\ nframes < MaxFrames
    /\ nframes' = nframes + 1
    /\ raw' = [raw EXCEPT ![c] = f]
    /\ IF f.json = "invalid"
       THEN UNCHANGED <<messages, next_id, store, write_failed, clients, pc, link, pending>>
       ELSE IF f.json = "array"
       THEN /\ Unregister(c)
            /\ UNCHANGED <<messages, next_id, store, write_failed>>
       ELSE LET e == Dispatch(messages, next_id, f)
            IN  /\ messages' = e.messages
                /\ next_id' = e.next_id
                /\ IF e.ev = NoEvent
                   THEN UNCHANGED <<store, write_failed, clients, pc, link, pending>>
                   ELSE /\ store' = _save_history(history_path, store, outcome,
                                                  e.next_id, e.messages)
                        /\ write_failed' = (history_path /\ outcome # "ok")
                        /\ pending' = _broadcast(pending, clients, e.ev, c)
                        /\ pc' = [pc EXCEPT ![c] = "bcast"]
                        /\ UNCHANGED <<clients, link>>
    /\ UNCHANGED <<status, history_path, wire, clientVars>>

\* The send tasks of the oldest unfinished gather run, and its caller goes on.
Deliver ==
    /\ status = "running"
    /\ pending # <<>>
    /\ LET job == Head(pending)
       IN  /\ wire' = Sends(wire, link, job)
           /\ pc' = [pc EXCEPT ![job.owner] = AfterBroadcast(@)]
           /\ link' = IF AfterBroadcast(pc[job.owner]) = "done"
                      THEN Ended(link, job.owner) ELSE link
    /\ pending' = Tail(pending)
    /\ UNCHANGED <<serverVars, clients, raw, clientVars, nframes>>

(***************************************************************************)
(* crypto.py and ChatApp._decrypt.  A ciphertext is the token "ct" of the  *)
(* shared key, a string that is no such token, or NoString, which stands   *)
(* for a JSON value that is truthy and no string (the server relays it).   *)
(***************************************************************************)
NoString == "<5>"
Garbled == "garbled"

UnableToDecrypt == "*** Unable to decrypt: check your password ***"

Returned(text) == [raised |-> "none", text |-> text]
Raised(exc) == [raised |-> exc, text |-> ""]

\* CipherBundle.decrypt_text: token.encode raises AttributeError on a value
\* that is no string; InvalidToken is turned into ValueError.
decrypt_text(token) ==
    IF token = NoString THEN Raised("AttributeError")
    ELSE IF token = "ct" THEN Returned("plain")
    ELSE Raised("ValueError")

\* ChatApp._decrypt
_decrypt(ciphertext) ==
    LET r == decrypt_text(ciphertext)
    IN  IF r.raised = "ValueError" THEN Returned(UnableToDecrypt) ELSE r

(***************************************************************************)
(* ChatApp, as a record a of its fields and of the state of its widgets;   *)
(* a.raised names the exception that leaves a method ("none": it returns). *)
(* t is the time of the call, geo says whether the log shows its end after *)
(* it was rewritten without being scrolled.                                *)
(***************************************************************************)
None == -2

idle_timeout == 2

\* args.user of the client on connection c
LocalUser(c) == "ann"

\* (mutant) the recorded index is kept
ClearCountOnly(a) == [a EXCEPT !.pending_message_count = 0]

_clear_pending_messages(a) ==
    [a EXCEPT !.pending_message_count = 0, !.pending_start_index = None]

_mark_activity(a, t) ==
    LET b == [a EXCEPT !.last_activity = t]
    IN  IF ~b.user_scrolled_up THEN _clear_pending_messages(b) ELSE b

_is_idle(a, t) == t - a.last_activity >= idle_timeout

\* (mutant) the menu and the selection are not looked at
AutoscrollAtBottom(a) == IF a.user_scrolled_up THEN FALSE ELSE a.at_bottom

_should_autoscroll(a) ==
    IF a.reaction_menu # None THEN FALSE
    ELSE IF a.selected_message_id # None THEN FALSE
    ELSE IF a.user_scrolled_up THEN FALSE
    ELSE a.at_bottom

action_scroll_end(a) ==
    _clear_pending_messages([a EXCEPT !.at_bottom = TRUE, !.user_scrolled_up = FALSE])

\* The first message of the mirror whose body cannot be produced (0: none).
FirstUnrenderable(msgs) ==
    IF \E i \in DOMAIN msgs : _decrypt(msgs[i].ciphertext).raised # "none"
    THEN CHOOSE i \in DOMAIN msgs :
            /\ _decrypt(msgs[i].ciphertext).raised # "none"
            /\ \A j \in 1..(i - 1) : _decrypt(msgs[j].ciphertext).raised = "none"
    ELSE 0

render_messages(a, t, geo) ==
    LET should_autoscroll == _should_autoscroll(a)
        bad == FirstUnrenderable(a.messages)
        b == [a EXCEPT !.auto_scroll = should_autoscroll]
    IN  IF bad # 0
        THEN [b EXCEPT !.rendered = [i \in 1..(bad - 1) |-> _decrypt(a.messages[i].ciphertext).text],
                       !.at_bottom = geo,
                       !.raised = _decrypt(a.messages[bad].ciphertext).raised]
        ELSE
        LET d == [b EXCEPT !.rendered =
                     [i \in DOMAIN a.messages |-> _decrypt(a.messages[i].ciphertext).text]]
        IN  IF should_autoscroll
            THEN IF _is_idle(d, t)
                 THEN [d EXCEPT !.at_bottom = TRUE, !.user_scrolled_up = FALSE]
                 ELSE action_scroll_end(d)
            ELSE [d EXCEPT !.at_bottom = geo]

update_scroll_state(a) ==
    LET b == [a EXCEPT !.user_scrolled_up = ~a.at_bottom,
                       !.auto_scroll = a.at_bottom /\ a.reaction_menu = None]
    IN  IF ~b.user_scrolled_up THEN _clear_pending_messages(b) ELSE b

\* (mutant) an idle client does not count the message as unread
FeedMessageWhenScrolled(a, user, t, geo, message) ==
    LET unread == message.user # user /\ ~_should_autoscroll(a)
        b == IF unread
             THEN [a EXCEPT !.pending_message_count = @ + 1,
                            !.pending_start_index = IF @ = None THEN Len(a.messages) ELSE @]
             ELSE a
    IN  render_messages([b EXCEPT !.messages = Append(@, message)], t, geo)

feed_message(a, user, t, geo, message) ==
    LET unread == message.user # user /\ (~_should_autoscroll(a) \/ _is_idle(a, t))
        b == IF unread
             THEN [a EXCEPT !.pending_message_count = @ + 1,
                            !.pending_start_index = IF @ = None THEN Len(a.messages) ELSE @]
             ELSE a
    IN  render_messages([b EXCEPT !.messages = Append(@, message)], t, geo)

feed_reaction_action(a, t, geo, message_id, reaction, action) ==
    LET target == FindMessage(a.messages, message_id)
    IN  IF target = 0 THEN a
        ELSE IF action = "remove"
        THEN render_messages(
                 [a EXCEPT !.messages[target].reactions =
                     SelectSeq(@, LAMBDA existing :
                         ~(existing.emoji = reaction.emoji /\ existing.user = reaction.user))],
                 t, geo)
        ELSE render_messages(
                 [a EXCEPT !.messages[target].reactions =
                     Append(@, Reaction(reaction.emoji, reaction.user))],
                 t, geo)

\* (mutant) the status is never changed
SetConnectionStatusIgnored(a, connected) == a

set_connection_status(a, connected) ==
    IF a.connection_ok = connected THEN a ELSE [a EXCEPT !.connection_ok = connected]

\* listen_server on a history event: feed_message for each payload in turn,
\* as long as none raises.
RECURSIVE FeedHistory(_, _, _, _, _)
FeedHistory(a, user, t, geo, payloads) ==
    IF payloads = <<>> \/ a.raised # "none" THEN a
    ELSE FeedHistory(feed_message(a, user, t, geo, from_payload(Head(payloads))),
                     user, t, geo, Tail(payloads))

\* The body of the loop of listen_server on one event.
Apply(a, user, t, geo, ev) ==
    IF ev.type = "history" THEN FeedHistory(a, user, t, geo, ev.messages)
    ELSE IF ev.type = "message" THEN feed_message(a, user, t, geo, from_payload(ev.message))
    ELSE IF ev.type = "reaction"
         THEN feed_reaction_action(a, t, geo, ev.message_id, ev.reaction, ev.action)
    ELSE a

\* ChatApp.dismiss_reaction_menu
dismiss_reaction_menu(a, t, geo, update) ==
    IF a.reaction_menu = None /\ a.selected_message_id = None THEN a
    ELSE LET b == update_scroll_state([a EXCEPT !.reaction_menu = None,
                                                !.selected_message_id = None])
         IN  IF update THEN render_messages(b, t, geo) ELSE b

\* ChatApp.open_reaction_menu on a line of message message_id
open_reaction_menu(a, t, geo, message_id) ==
    LET b == dismiss_reaction_menu(a, t, geo, FALSE)
    IN  render_messages([b EXCEPT !.selected_message_id = message_id,
                                  !.reaction_menu = message_id,
                                  !.auto_scroll = FALSE], t, geo)

(***************************************************************************)
(* The compose input: a sequence of typed texts, newlines and quote blocks. *)
(***************************************************************************)
MaxInput == 2

\* The frames a client hands to its connection are counted up to MaxSent.
MaxSent == 1

Typed == [kind |-> "text"]
Newline == [kind |-> "newline"]
Quote(id) == [kind |-> "quote", of |-> id]

\* The text "/react <id> <emoji>"
Command(id, emoji) == [kind |-> "react", id |-> id, emoji |-> emoji]

\* The emoji of a /react command followed by more text: split(maxsplit=2)
\* leaves all of it in parts[2].
Trailing == "+1 text"

\* text.rstrip(): trailing newlines go
RECURSIVE rstrip(_)
rstrip(text) ==
    IF text # <<>> /\ text[Len(text)] = Newline THEN rstrip(SubSeq(text, 1, Len(text) - 1))
    ELSE text

\* send_reaction: the frame it hands to websocket.send
send_reaction(user, message_id, emoji, remove) ==
    ReactionFrame(message_id, emoji, user, remove)

\* route_command on a text that is not empty: a /react command goes to
\* send_reaction, whose remove is left at its default; any other text is
\* encrypted and goes out as a message frame.
route_command(user, text) ==
    IF text[1].kind = "react"
    THEN send_reaction(user, text[1].id,
                       IF Len(text) = 1 THEN text[1].emoji ELSE Trailing, FALSE)
    ELSE MessageFrame(user, "ct")

\* ChatApp.send_from_input; the send task it creates hands one frame to
\* websocket.send.
send_from_input(a, user) ==
    IF ~a.connection_ok THEN a
    ELSE LET text == rstrip(a.input_text)
             b == [a EXCEPT !.input_text = <<>>]
         IN  IF text # <<>> THEN [b EXCEPT !.sent = Append(@, route_command(user, text))]
             ELSE b

\* ChatApp.reply_to_message_from_menu
reply_to_message_from_menu(a, t, geo, message_id) ==
    LET b == dismiss_reaction_menu(a, t, geo, TRUE)
        target == FindMessage(b.messages, message_id)
    IN  IF b.raised # "none" \/ target = 0 THEN b
        ELSE LET body == _decrypt(b.messages[target].ciphertext)
             IN  IF body.raised # "none" THEN [b EXCEPT !.raised = body.raised]
                 ELSE [b EXCEPT !.input_text =
                          (IF @ # <<>> /\ @[Len(@)] # Newline THEN Append(@, Newline) ELSE @)
                          \o <<Quote(message_id)>>]

\* ChatApp.send_reaction_from_menu: ChatApp has no attribute _has_reaction
\* (the def of that name is unreachable code inside _restart_args).
send_reaction_from_menu(a, t, geo, message_id, emoji) ==
    LET b == dismiss_reaction_menu(a, t, geo, TRUE)
    IN  IF b.raised # "none" THEN b ELSE [b EXCEPT !.raised = "AttributeError"]

\* ChatApp.action_reconnect; exits says that self.exit() was called.
\* (mutant) a reconnect is attempted at every request
ReconnectAlways(a) ==
    [app |-> [a EXCEPT !.reconnect_attempted = TRUE, !.restart_requested = TRUE],
     exits |-> TRUE]

action_reconnect(a) ==
    IF a.connection_ok \/ a.reconnect_attempted THEN [app |-> a, exits |-> FALSE]
    ELSE [app |-> [a EXCEPT !.reconnect_attempted = TRUE, !.restart_requested = TRUE],
          exits |-> TRUE]

(***************************************************************************)
(* The client process of connection c.                                     *)
(***************************************************************************)
App(c) ==
    [messages |-> mirror[c], connection_ok |-> connection_ok[c],
     last_activity |-> last_activity[c], user_scrolled_up |-> user_scrolled_up[c],
     pending_message_count |-> pending_message_count[c],
     pending_start_index |-> pending_start_index[c],
     selected_message_id |-> selected_message_id[c], reaction_menu |-> reaction_menu[c],
     reconnect_attempted |-> reconnect_attempted[c],
     restart_requested |-> restart_requested[c],
     at_bottom |-> at_bottom[c], auto_scroll |-> auto_scroll[c], rendered |-> rendered[c],
     input_text |-> input_text[c], sent |-> sent[c], raised |-> "none"]

\* The fields of record a become the state of the client of c.
SetApp(c, a) ==
    /\ mirror' = [mirror EXCEPT ![c] = a.messages]
    /\ connection_ok' = [connection_ok EXCEPT ![c] = a.connection_ok]
    /\ last_activity' = [last_activity EXCEPT ![c] = a.last_activity]
    /\ user_scrolled_up' = [user_scrolled_up EXCEPT ![c] = a.user_scrolled_up]
    /\ pending_message_count' = [pending_message_count EXCEPT ![c] = a.pending_message_count]
    /\ pending_start_index' = [pending_start_index EXCEPT ![c] = a.pending_start_index]
    /\ selected_message_id' = [selected_message_id EXCEPT ![c] = a.selected_message_id]
    /\ reaction_menu' = [reaction_menu EXCEPT ![c] = a.reaction_menu]
    /\ reconnect_attempted' = [reconnect_attempted EXCEPT ![c] = a.reconnect_attempted]
    /\ restart_requested' = [restart_requested EXCEPT ![c] = a.restart_requested]
    /\ at_bottom' = [at_bottom EXCEPT ![c] = a.at_bottom]
    /\ auto_scroll' = [auto_scroll EXCEPT ![c] = a.auto_scroll]
    /\ rendered' = [rendered EXCEPT ![c] = a.rendered]
    /\ input_text' = [input_text EXCEPT ![c] = a.input_text]
    /\ sent' = [sent EXCEPT ![c] = a.sent]

\* The app runs: it was mounted and has not exited.
UiRuns(c) == cpc[c] \in {"listen", "closed"}

\* run_client: await websocket.recv() takes the first frame, whatever it is;
\* ChatApp is constructed and mounted, the listener task is created.
ClientHello(c) ==
    /\ cpc[c] = "hello"
    /\ wire[c] # <<>>
    /\ wire' = [wire EXCEPT ![c] = Tail(@)]
    /\ cpc' = [cpc EXCEPT ![c] = "listen"]
    /\ listener_task' = [listener_task EXCEPT ![c] = "running"]
    /\ SetApp(c, [App(c) EXCEPT !.last_activity = now])
    /\ UNCHANGED <<serverVars, clients, pc, link, raw, pending, nframes, now>>

\* listen_server: the next event is applied; an exception of the body ends
\* the loop after set_connection_status(False).
ClientListen(c, geo) ==
    /\ cpc[c] = "listen"
    /\ wire[c] # <<>>
    /\ LET a == Apply(App(c), LocalUser(c), now, geo, Head(wire[c]))
       IN  IF a.raised = "none"
           THEN SetApp(c, a) /\ UNCHANGED <<cpc, listener_task>>
           ELSE SetApp(c, set_connection_status(a, FALSE))
                /\ cpc' = [cpc EXCEPT ![c] = "closed"]
                /\ listener_task' = [listener_task EXCEPT ![c] = "done"]
    /\ wire' = [wire EXCEPT ![c] = Tail(@)]
    /\ UNCHANGED <<serverVars, clients, pc, link, raw, pending, nframes, now>>

\* The transport is closed and everything sent was read: recv() raises in
\* run_client and the process ends, or the loop of listen_server ends and
\* set_connection_status(False) is called.
ClientClosed(c) ==
    /\ cpc[c] \in {"hello", "listen"}
    /\ wire[c] = <<>>
    /\ link[c] = "closed"
    /\ IF cpc[c] = "listen"
       THEN SetApp(c, set_connection_status(App(c), FALSE))
            /\ cpc' = [cpc EXCEPT ![c] = "closed"]
            /\ listener_task' = [listener_task EXCEPT ![c] = "done"]
       ELSE SetApp(c, App(c)) /\ cpc' = [cpc EXCEPT ![c] = "ended"]
            /\ UNCHANGED listener_task
    /\ UNCHANGED <<serverVars, clients, pc, link, raw, wire, pending, nframes, now>>

(***************************************************************************)
(* What the user does.  A handler of the app that raises ends the app, and *)
(* with it the process and its connection.                                 *)
(***************************************************************************)
\* run_client, finally: listener_task.cancel() and await listener_task.  A
\* task that runs is cancelled; on one that is done cancel() does nothing.
Cancelled(task) == IF task = "running" THEN "cancelled" ELSE "awaited"

Handled(c, a) ==
    /\ SetApp(c, a)
    /\ IF a.raised = "none"
       THEN UNCHANGED <<cpc, link, listener_task>>
       ELSE /\ cpc' = [cpc EXCEPT ![c] = "ended"]
            /\ link' = Ended(link, c)
            /\ listener_task' = [listener_task EXCEPT ![c] = Cancelled(@)]
    /\ UNCHANGED <<serverVars, clients, pc, raw, wire, pending, nframes, now>>

\* Time passes.
MaxTime == 2

Tick ==
    /\ now < MaxTime
    /\ now' = now + 1
    /\ UNCHANGED <<serverVars, clients, pc, link, raw, wire, pending, nframes, cpc, mirror,
                   connection_ok, listener_task, viewVars>>

\* ChatApp.on_key, ChatApp.on_mouse_down: a key or click of no other effect.
Activity(c) ==
    /\ UiRuns(c)
    /\ Handled(c, _mark_activity(App(c), now))

\* ChatLog.on_mouse_scroll_up / on_mouse_scroll_down; bottom says whether the
\* log shows its end when the handler looks.
MouseScroll(c, bottom) ==
    /\ UiRuns(c)
    /\ Handled(c, update_scroll_state([_mark_activity(App(c), now) EXCEPT !.at_bottom = bottom]))

\* ChatLog.on_mouse_down, right button, on a rendered line of message id.
RightClick(c, id, geo) ==
    /\ UiRuns(c)
    /\ \E i \in DOMAIN rendered[c] : mirror[c][i].id = id
    /\ Handled(c, open_reaction_menu(_mark_activity(App(c), now), now, geo, id))

\* ChatApp.on_mouse_down, left button, outside the open menu.
LeftClick(c, geo) ==
    /\ UiRuns(c)
    /\ reaction_menu[c] # None
    /\ Handled(c, dismiss_reaction_menu(_mark_activity(App(c), now), now, geo, TRUE))

\* ctrl+l
ScrollEnd(c) ==
    /\ UiRuns(c)
    /\ Handled(c, action_scroll_end(_mark_activity(App(c), now)))

\* ChatInput.on_key on a printable key: the key is swallowed while the
\* connection is lost, otherwise the text area inserts it.
KeyTyped(c) ==
    /\ UiRuns(c)
    /\ Len(input_text[c]) < MaxInput
    /\ LET a == _mark_activity(App(c), now)
       IN  Handled(c, IF ~a.connection_ok THEN a
                      ELSE [a EXCEPT !.input_text = Append(@, Typed)])

\* The keys of "/react <id> <emoji>", typed into the empty input.
KeyCommand(c, id, emoji) ==
    /\ UiRuns(c)
    /\ input_text[c] = <<>>
    /\ LET a == _mark_activity(App(c), now)
       IN  Handled(c, IF ~a.connection_ok THEN a
                      ELSE [a EXCEPT !.input_text = <<Command(id, emoji)>>])

\* ChatInput.on_key on shift+enter or ctrl+j
KeyNewline(c) ==
    /\ UiRuns(c)
    /\ Len(input_text[c]) < MaxInput
    /\ LET a == _mark_activity(App(c), now)
       IN  Handled(c, IF ~a.connection_ok THEN a
                      ELSE [a EXCEPT !.input_text = Append(@, Newline)])

\* ChatInput.on_key on enter
KeyEnter(c) ==
    /\ UiRuns(c)
    /\ Len(sent[c]) < MaxSent
    /\ LET a == _mark_activity(App(c), now)
       IN  Handled(c, IF ~a.connection_ok THEN a ELSE send_from_input(a, LocalUser(c)))

\* ReactionMenu.on_button_pressed, "Reply to"
MenuReply(c, geo) ==
    /\ UiRuns(c)
    /\ reaction_menu[c] # None
    /\ Len(input_text[c]) < MaxInput
    /\ Handled(c, reply_to_message_from_menu(App(c), now, geo, reaction_menu[c]))

\* ReactionMenu.on_button_pressed, an emoji
MenuReact(c, emoji, geo) ==
    /\ UiRuns(c)
    /\ reaction_menu[c] # None
    /\ Handled(c, send_reaction_from_menu(App(c), now, geo, reaction_menu[c], emoji))

\* ctrl+c or ctrl+d: action_quit ends the app, ui.run_async() returns with
\* no restart requested, and the finally clause of run_client cancels the
\* listener before the process ends.
Quit(c) ==
    /\ UiRuns(c)
    /\ SetApp(c, _mark_activity(App(c), now))
    /\ cpc' = [cpc EXCEPT ![c] = "ended"]
    /\ link' = Ended(link, c)
    /\ listener_task' = [listener_task EXCEPT ![c] = Cancelled(@)]
    /\ UNCHANGED <<serverVars, clients, pc, raw, wire, pending, nframes, now>>

\* ctrl+r; App.exit() only asks the app to stop, so the key can come again
\* before it has stopped.
Reconnect(c) ==
    /\ UiRuns(c) \/ cpc[c] = "exiting"
    /\ LET r == action_reconnect(_mark_activity(App(c), now))
       IN  /\ SetApp(c, r.app)
           /\ cpc' = [cpc EXCEPT ![c] = IF r.exits THEN "exiting" ELSE @]
    /\ UNCHANGED listener_task
    /\ UNCHANGED <<serverVars, clients, pc, link, raw, wire, pending, nframes, now>>

\* run_client after ui.run_async() has returned with restart_requested:
\* os.execv replaces the process by one with the same arguments, which
\* connects anew (as connection d).
Restart(c, d) ==
    /\ cpc[c] = "exiting"
    /\ restart_requested[c]
    /\ status = "running"
    /\ link[d] = "none"
    /\ link' = [Ended(link, c) EXCEPT ![d] = "open"]
    /\ pc' = [pc EXCEPT ![d] = "start"]
    /\ cpc' = [cpc EXCEPT ![c] = "ended", ![d] = "hello"]
    /\ UNCHANGED <<serverVars, clients, raw, wire, pending, nframes, now, mirror,
                   connection_ok, listener_task, viewVars>>

(***************************************************************************)
(* Specifications.                                                         *)
(***************************************************************************)
InitConnections ==
    /\ clients = {}
    /\ pc = [c \in Conns |-> "none"]
    /\ link = [c \in Conns |-> "none"]
    /\ raw = [c \in Conns |-> NoFrame]
    /\ wire = [c \in Conns |-> <<>>]
    /\ pending = <<>>
    /\ cpc = [c \in Conns |-> "off"]
    /\ mirror = [c \in Conns |-> <<>>]
    /\ connection_ok = [c \in Conns |-> TRUE]
    /\ nframes = 0
    /\ now = 0
    /\ last_activity = [c \in Conns |-> 0]
    /\ user_scrolled_up = [c \in Conns |-> FALSE]
    /\ pending_message_count = [c \in Conns |-> 0]
    /\ pending_start_index = [c \in Conns |-> None]
    /\ selected_message_id = [c \in Conns |-> None]
    /\ reaction_menu = [c \in Conns |-> None]
    /\ reconnect_attempted = [c \in Conns |-> FALSE]
    /\ restart_requested = [c \in Conns |-> FALSE]
    /\ at_bottom = [c \in Conns |-> TRUE]
    /\ auto_scroll = [c \in Conns |-> TRUE]
    /\ rendered = [c \in Conns |-> <<>>]
    /\ input_text = [c \in Conns |-> <<>>]
    /\ sent = [c \in Conns |-> <<>>]
    /\ listener_task = [c \in Conns |-> "none"]

\* A server constructed with a history path at which no file exists yet.
Init ==
    /\ status = "running"
    /\ history_path = TRUE
    /\ store = NoFile
    /\ messages = <<>>
    /\ next_id = 1
    /\ write_failed = FALSE
    /\ InitConnections

\* The steps of a handler whose transport stays up ...
Handler(c) ==
    \/ RegisterHello(c)
    \/ RegisterHistory(c)
    \/ RegisterPresence(c)

\* ... and those it takes once the transport is lost.
HandlerLost(c) ==
    \/ RegisterFail(c)
    \/ LoopEnd(c)

Client(c) ==
    \/ ClientHello(c)
    \/ \E geo \in BOOLEAN : ClientListen(c, geo)

(***************************************************************************)
(* Spec: the server with two connections on a disk that takes every write  *)
(* and transports that stay up; the peers submit frames of every class.    *)
(***************************************************************************)
Targets == {1, 2}

SpecFrames ==
    {InvalidFrame, ArrayFrame, OtherFrame,
     MessageFrame("ann", "ct"), MessageFrame("", "ct"), MessageFrame("ann", "")}
    \cup {ReactionFrame(m, "+1", "ann", r) : m \in Targets, r \in BOOLEAN}

Next ==
    \/ \E c \in Conns : Connect(c)
    \/ \E c \in Conns : Handler(c)
    \/ \E c \in Conns : \E f \in SpecFrames : Receive(c, f, "ok")
    \/ Deliver

Spec == Init /\ [][Next]_vars

(***************************************************************************)
(* SpecDisk: writes of the history file fail.                              *)
(***************************************************************************)
DiskFrames ==
    {MessageFrame("ann", "ct"), MessageFrame("", "ct"),
     ReactionFrame(1, "+1", "ann", FALSE), ReactionFrame(1, "+1", "ann", TRUE)}

NextDisk ==
    \/ \E c \in Conns : Connect(c)
    \/ \E c \in Conns : Handler(c)
    \/ /\ nframes < MaxDiskFrames
       /\ \E c \in Conns : \E f \in DiskFrames : \E o \in WriteOutcomes : Receive(c, f, o)
    \/ Deliver

SpecDisk == Init /\ [][NextDisk]_vars

(***************************************************************************)
(* SpecFail: transports are lost at any moment.                            *)
(***************************************************************************)
FailFrames == {ArrayFrame, MessageFrame("ann", "ct"), ReactionFrame(1, "+1", "ann", FALSE)}

NextFail ==
    \/ \E c \in Conns : Connect(c)
    \/ \E c \in Conns : CloseLink(c)
    \/ \E c \in Conns : Handler(c)
    \/ \E c \in Conns : HandlerLost(c)
    \/ /\ nframes < MaxFailFrames
       /\ \E c \in Conns : \E f \in FailFrames : Receive(c, f, "ok")
    \/ Deliver

SpecFail == Init /\ [][NextFail]_vars

(***************************************************************************)
(* SpecSync: the clients read what the server sends them and fold it into  *)
(* their mirrors.                                                          *)
(***************************************************************************)
SyncFrames ==
    {MessageFrame("ann", "ct"),
     ReactionFrame(1, "+1", "ann", FALSE), ReactionFrame(1, "+1", "ann", TRUE)}

NextSync ==
    \/ \E c \in Conns : Connect(c)
    \/ \E c \in Conns : Handler(c)
    \/ /\ nframes < MaxSyncFrames
       /\ \E c \in Conns : \E f \in SyncFrames : Receive(c, f, "ok")
    \/ Deliver
    \/ \E c \in Conns : Client(c)

SpecSync == Init /\ [][NextSync]_vars

(***************************************************************************)
(* SpecStore: the server is started, stopped and started again on a        *)
(* history file whose first content is any of InitialStores.               *)
(***************************************************************************)
Stored(id, user, reactions) ==
    [id |-> id, user |-> user, ciphertext |-> "ct", reactions |-> reactions]

InitialStores ==
    << NoFile, Unreadable, Undecodable, InvalidJson, JsonArray,
       \* {"next_id": 3, "messages": []}
       JsonObject([next_id |-> JInt(3), messages |-> JList(<<>>)]),
       \* the ledger of two messages, as _save_history writes it
       Snapshot(3, <<ChatMessage(1, "ann", "ct", <<Reaction("+1", "bob")>>),
                     ChatMessage(2, "bob", "ct", <<>>)>>),
       \* a next_id that is not max id + 1, ids out of order
       JsonObject([next_id |-> JInt(2),
                   messages |-> JList(<<Stored(3, "ann", <<>>), Stored(1, "bob", <<>>)>>)]),
       \* a message without "reactions", no "next_id"
       JsonObject([messages |-> JList(<<[id |-> 1, user |-> "ann", ciphertext |-> "ct"]>>)]),
       \* neither "messages" nor "next_id"
       JsonObject([other |-> JNull]),
       \* "messages" is a number
       JsonObject([next_id |-> JInt(1), messages |-> [kind |-> "number"]]),
       \* "next_id" is null
       JsonObject([next_id |-> JNull, messages |-> JList(<<>>)]),
       \* an entry that is no object
       JsonObject([next_id |-> JInt(2), messages |-> JList(<<NonDict>>)]),
       \* an entry without "user"
       JsonObject([next_id |-> JInt(2),
                   messages |-> JList(<<[id |-> 1, ciphertext |-> "ct"]>>)]),
       \* a reaction without "user"
       JsonObject([next_id |-> JInt(2),
                   messages |-> JList(<<Stored(1, "ann", <<[emoji |-> "+1"]>>)>>)]),
       \* an id that is null
       JsonObject([next_id |-> JInt(2),
                   messages |-> JList(<<Stored(NullId, "ann", <<>>)>>)]) >>

InitStore ==
    /\ status = "init"
    /\ \/ history_path = TRUE /\ \E i \in DOMAIN InitialStores : store = InitialStores[i]
       \/ history_path = FALSE /\ store = NoFile
    /\ messages = <<>>
    /\ next_id = 1
    /\ write_failed = FALSE
    /\ InitConnections

StoreFrames ==
    {MessageFrame("ann", "ct"),
     ReactionFrame(1, "+1", "ann", FALSE), ReactionFrame(1, "+1", "ann", TRUE)}

NextStore ==
    \/ Start
    \/ Stop
    \/ \E c \in Conns : Connect(c)
    \/ \E c \in Conns : Handler(c)
    \/ /\ nframes < MaxStoreFrames
       /\ \E c \in Conns : \E f \in StoreFrames : Receive(c, f, "ok")
    \/ Deliver

SpecStore == InitStore /\ [][NextStore]_vars

(***************************************************************************)
(* SpecReact: the server was constructed on a history file whose first     *)
(* message holds reactions of two keys, one of them twice; the peers       *)
(* submit remove requests.                                                 *)
(***************************************************************************)
MaxReactFrames == 3

ReactStore ==
    Snapshot(3, <<ChatMessage(1, "ann", "ct", <<Reaction("+1", "ann"), Reaction("+1", "bob"),
                                                Reaction("+1", "ann")>>),
                  ChatMessage(2, "bob", "ct", <<>>)>>)

InitReact ==
    /\ status = "running"
    /\ history_path = TRUE
    /\ store = ReactStore
    /\ messages = _load_history(TRUE, ReactStore).messages
    /\ next_id = _load_history(TRUE, ReactStore).next_id
    /\ write_failed = FALSE
    /\ InitConnections

ReactFrames ==
    {ReactionFrame(1, "+1", "ann", TRUE), ReactionFrame(1, "+1", "bob", TRUE),
     ReactionFrame(2, "+1", "ann", TRUE), ReactionFrame(3, "+1", "ann", TRUE)}

NextReact ==
    \/ \E c \in Conns : Connect(c)
    \/ \E c \in Conns : Handler(c)
    \/ /\ nframes < MaxReactFrames
       /\ \E c \in Conns : \E f \in ReactFrames : Receive(c, f, "ok")
    \/ Deliver

SpecReact == InitReact /\ [][NextReact]_vars

(***************************************************************************)
(* SpecRender: the peers submit messages whose ciphertext is a token of    *)
(* the key, a string that is none, or no string; the clients render them.  *)
(***************************************************************************)
MaxRenderFrames == 2

RenderFrames ==
    {MessageFrame("bob", "ct"), MessageFrame("bob", Garbled), MessageFrame("bob", NoString)}

NextRender ==
    \/ \E c \in Conns : Connect(c)
    \/ \E c \in Conns : Handler(c)
    \/ /\ nframes < MaxRenderFrames
       /\ \E c \in Conns : \E f \in RenderFrames : Receive(c, f, "ok")
    \/ Deliver
    \/ \E c \in Conns : Client(c)

SpecRender == Init /\ [][NextRender]_vars

(***************************************************************************)
(* SpecView: the user of the client on c1 scrolls, clicks and waits while  *)
(* messages of that user and of another arrive.                            *)
(***************************************************************************)
MaxViewFrames == 2

ViewFrames == {MessageFrame("ann", "ct"), MessageFrame("bob", "ct")}

User(c) ==
    \/ Activity(c)
    \/ \E bottom \in BOOLEAN : MouseScroll(c, bottom)
    \/ \E id \in Targets : \E geo \in BOOLEAN : RightClick(c, id, geo)
    \/ \E geo \in BOOLEAN : LeftClick(c, geo)
    \/ ScrollEnd(c)

NextView ==
    \/ \E c \in Conns : Connect(c)
    \/ \E c \in Conns : Handler(c)
    \/ /\ nframes < MaxViewFrames
       /\ \E c \in Conns : \E f \in ViewFrames : Receive(c, f, "ok")
    \/ Deliver
    \/ Client("c1")
    \/ User("c1")
    \/ Tick

SpecView == Init /\ [][NextView]_vars

(***************************************************************************)
(* SpecSession: the connection of a client is lost while its user types,   *)
(* sends, uses the message menu and asks to reconnect.                     *)
(***************************************************************************)
MaxSessionFrames == 1

SessionFrames == {MessageFrame("bob", "ct")}

Keys(c) ==
    \/ KeyTyped(c)
    \/ KeyNewline(c)
    \/ \E id \in Targets : \E emoji \in Emojis : KeyCommand(c, id, emoji)
    \/ KeyEnter(c)
    \/ \E id \in Targets : RightClick(c, id, TRUE)
    \/ MenuReply(c, TRUE)
    \/ \E emoji \in Emojis : MenuReact(c, emoji, TRUE)
    \/ Reconnect(c)
    \/ Quit(c)

NextSession ==
    \/ Connect("c1")
    \/ \E c \in Conns : CloseLink(c)
    \/ \E c \in Conns : Handler(c)
    \/ \E c \in Conns : HandlerLost(c)
    \/ /\ nframes < MaxSessionFrames
       /\ \E f \in SessionFrames : Receive("c1", f, "ok")
    \/ Deliver
    \/ \E c \in Conns : Client(c)
    \/ \E c \in Conns : ClientClosed(c)
    \/ Keys("c1")
    \/ Restart("c1", "c2")

SpecSession == Init /\ [][NextSession]_vars

(***************************************************************************)
(* Properties.                                                             *)
(***************************************************************************)
Last(q) == q[Len(q)]

SameKey(r1, r2) == r1.emoji = r2.emoji /\ r1.user = r2.user

\* C1: starting from an empty ledger, the ids of the accepted messages are
\* exactly 1, 2, 3, ... in ledger order, whatever frames the connections
\* submit and however they interleave.
C1_IdsCountFromOne == \A i \in DOMAIN messages : messages[i].id = i

\* Three messages accepted out of four frames, with a frame of the other
\* connection rejected.
C1_Witness ==
    /\ Len(messages) = 3
    /\ nframes = 4
    /\ raw["c1"] = MessageFrame("ann", "ct")
    /\ raw["c2"] = MessageFrame("", "ct")

\* C3: every ledger message holds at most one reaction per (emoji, user).
C3_OneReactionPerKey ==
    \A i \in DOMAIN messages :
        \A j, k \in DOMAIN messages[i].reactions :
            SameKey(messages[i].reactions[j], messages[i].reactions[k]) => j = k

\* No two unfinished broadcasts carry an add and a remove of the same key.
NeverBoth(q) ==
    \A i, j \in DOMAIN q :
        ~ /\ q[i].ev.type = "reaction" /\ q[j].ev.type = "reaction"
          /\ q[i].ev.message_id = q[j].ev.message_id
          /\ SameKey(q[i].ev.reaction, q[j].ev.reaction)
          /\ q[i].ev.action = "add" /\ q[j].ev.action = "remove"

\* Handler c takes the frame raw'[c] in this step.
Takes(c) ==
    /\ nframes' = nframes + 1
    /\ pc[c] = "recv"
    /\ raw'[c] # raw[c] \/ pc'[c] # pc[c] \/ \A d \in Conns \ {c} : pc[d] # "recv"

\* Frame f meets the unfinished broadcast of the opposite request on its key.
MeetsOpposite(c, f) ==
    \E i \in DOMAIN pending :
        /\ pending[i].owner # c
        /\ pending[i].ev.type = "reaction"
        /\ pending[i].ev.message_id = f.message_id
        /\ pending[i].ev.reaction = [emoji |-> f.emoji, user |-> f.user]
        /\ (pending[i].ev.action = "add") = f.remove

\* C5: of an add and a remove of one key that reach the server together, the
\* frame processed last decides the ledger (the key is there after an add and
\* gone after a remove), and the server never has both an add event and a
\* remove event of that key to broadcast.
C5_LastFrameDecides ==
    [][ \A c \in Conns :
          (Takes(c) /\ raw'[c].json = "object" /\ raw'[c].type = "reaction"
                    /\ MeetsOpposite(c, raw'[c])) =>
              LET f == raw'[c]
                  t == FindMessage(messages', f.message_id)
              IN  /\ HasKey(messages'[t].reactions, f.emoji, f.user) = ~f.remove
                  /\ NeverBoth(pending') ]_vars

\* Client c has read and applied every frame sent to it, and none is on its way.
CaughtUp(c) ==
    /\ cpc[c] = "listen"
    /\ pc[c] \in {"history", "presence", "recv", "bcast"}
    /\ wire[c] = <<>>
    /\ \A i \in DOMAIN pending : c \notin pending[i].targets

\* C2: a client that has applied every frame the server sent it (history,
\* then live events) holds a mirror equal to the ledger: the same messages
\* in the same order, each with the same reactions.
C2_MirrorEqualsLedger == \A c \in Conns : CaughtUp(c) => mirror[c] = messages

\* C4: the ids of every mirror are a prefix of the ids of the ledger.
C4_MirrorIsPrefix == \A c \in Conns : IsPrefix(Ids(mirror[c]), Ids(messages))

\* Handler c has changed the ledger in this step and goes on to broadcast.
Mutates(c) == pc[c] = "recv" /\ pc'[c] = "bcast"

\* C6 as claimed: whenever a handler has changed the ledger, the history file
\* holds the ledger with that change before the event is sent to anyone.
C6_StoredBeforeSent ==
    [][ \A c \in Conns :
          Mutates(c) => store' = Snapshot(next_id', messages') /\ wire' = wire ]_vars

\* C6, amended: whenever a handler has changed the ledger, _save_history has
\* run on the changed ledger before the event is sent to anyone; the file
\* holds that ledger unless the write failed.
C6_SavedBeforeSent ==
    [][ \A c \in Conns :
          Mutates(c) =>
              /\ write_failed' \/ store' = Snapshot(next_id', messages')
              /\ wire' = wire ]_vars

\* A reaction event has reached a connection after a failed write was
\* followed by a good one: the file holds the ledger.
C6_Witness ==
    /\ ~write_failed
    /\ store = Snapshot(next_id, messages)
    /\ \E c \in Conns :
          /\ wire[c] # <<>>
          /\ Last(wire[c]).type = "reaction"
          /\ Last(wire[c]).action = "add"
          /\ pc[c] = "recv"
          /\ raw[c] = ReactionFrame(1, "+1", "ann", FALSE)

\* C9: a connection whose handler has ended is not in the registry.
C9_EndedIsUnregistered == \A c \in Conns : pc[c] = "done" => c \notin clients

\* The send tasks of the oldest broadcast run in this step.
Delivers == pending # <<>> /\ pending' = Tail(pending) /\ status' = "running"

\* C10: when a send of a broadcast fails, every registered connection whose
\* transport is up still gets the event, and the handler that broadcast it
\* goes back to its receive loop.
C10_BroadcastOutlivesFailure ==
    [][ (Delivers /\ \E t \in Head(pending).targets : link[t] # "open") =>
          LET job == Head(pending)
          IN  /\ \A t \in job.targets :
                    link[t] = "open" => wire'[t] = Append(wire[t], job.ev)
              /\ pc[job.owner] = "bcast" => pc'[job.owner] = "recv" ]_vars

\* A message of c reached c while the registered d, whose transport is
\* lost, got none; c is back to receiving.
C10_Witness ==
    \E c, d \in Conns :
        /\ c # d
        /\ d \in clients /\ link[d] = "closed"
        /\ \A i \in DOMAIN wire[d] : wire[d][i].type # "message"
        /\ pc[c] = "recv" /\ raw[c] = MessageFrame("ann", "ct")
        /\ wire[c] # <<>> /\ Last(wire[c]).type = "message"

(***************************************************************************)
(* Startup on a history file.                                              *)
(***************************************************************************)
\* ChatServer.__init__ runs in this step.
Starts == status \in {"init", "stopped"} /\ status' \notin {"init", "stopped"}

WellFormedEntry(p) ==
    /\ DOMAIN p = {"id", "user", "ciphertext", "reactions"}
    /\ p.id # NullId
    /\ \A i \in DOMAIN p.reactions : DOMAIN p.reactions[i] = {"emoji", "user"}

\* The file holds what _save_history writes: next_id and a list of payloads.
WellFormed(file) ==
    /\ file.kind = "text"
    /\ file.json.kind = "object"
    /\ DOMAIN file.json.obj = {"next_id", "messages"}
    /\ file.json.obj.next_id.kind = "int"
    /\ file.json.obj.messages.kind = "list"
    /\ \A i \in DOMAIN file.json.obj.messages.items :
          WellFormedEntry(file.json.obj.messages.items[i])

\* The file cannot be read or parsed as a snapshot.
Corrupt(file) ==
    \/ file.kind \in {"oserror", "undecodable"}
    \/ file.kind = "text" /\ file.json.kind # "object"
    \/ /\ file.kind = "text" /\ file.json.kind = "object"
       /\ \/ /\ "messages" \in DOMAIN file.json.obj
             /\ \/ file.json.obj.messages.kind # "list"
                \/ \E i \in DOMAIN file.json.obj.messages.items :
                      LET p == file.json.obj.messages.items[i]
                      IN  \/ ~({"id", "user", "ciphertext"} \subseteq DOMAIN p)
                          \/ p.id = NullId
                          \/ /\ "reactions" \in DOMAIN p
                             /\ \E j \in DOMAIN p.reactions :
                                   DOMAIN p.reactions[j] # {"emoji", "user"}
          \/ "next_id" \in DOMAIN file.json.obj /\ file.json.obj.next_id.kind # "int"

\* C7: a server started on a file that holds a persisted ledger has that
\* ledger (messages and reactions, in order) and next_id = max id + 1, or the
\* stored next_id when no message is stored; and every id assigned to a
\* ledger of well-typed ids is greater than the ids of that ledger.
C7_ReloadsPersistedLedger ==
    [][ /\ (Starts /\ history_path /\ WellFormed(store)) =>
            LET items == store.json.obj.messages.items
            IN  /\ status' = "running"
                /\ [i \in DOMAIN messages' |-> to_payload(messages'[i])] = items
                /\ next_id' = IF items # <<>>
                               THEN SeqMax([i \in DOMAIN items |-> items[i].id]) + 1
                               ELSE store.json.obj.next_id.v
        /\ \A c \in Conns :
              (/\ Mutates(c) /\ Len(messages') = Len(messages) + 1
               /\ \A i \in DOMAIN messages : messages[i].id # NullId) =>
                  \A i \in DOMAIN messages : messages[i].id < Last(messages').id ]_vars

\* The ledger persisted before a stop was reloaded and then extended: c sent
\* message 1 before the stop, d message 2 after the restart.
C7_Witness ==
    \E c, d \in Conns :
        /\ status = "running"
        /\ pc[c] = "done" /\ raw[c] = MessageFrame("ann", "ct")
        /\ pc[d] = "bcast" /\ raw[d] = MessageFrame("ann", "ct")
        /\ Ids(messages) = <<1, 2>>
        /\ store = Snapshot(3, messages)

\* C8: on a file that cannot be read or parsed as a snapshot, startup
\* completes, the ledger is empty and ids are assigned from 1.
C8_CorruptStoreStartsEmpty ==
    [][ (Starts /\ history_path /\ Corrupt(store)) =>
          status' = "running" /\ messages' = <<>> /\ next_id' = 1 ]_vars

(***************************************************************************)
(* Frames the server drops.                                                *)
(***************************************************************************)
\* f is no well-formed message or reaction frame.
Malformed(f) ==
    \/ f.json # "object"
    \/ f.type \notin {"message", "reaction"}
    \/ f.type = "message" /\ (f.user = "" \/ f.ciphertext = "")
    \/ f.type = "reaction" /\ (f.message_id = 0 \/ f.emoji = "" \/ f.user = "")

\* Nothing the server keeps or has to send was changed in this step.
NoEffect ==
    /\ messages' = messages
    /\ next_id' = next_id
    /\ store' = store
    /\ pending' = pending

\* C11: a frame that is no well-formed message or reaction frame changes
\* neither ledger nor store, is followed by no broadcast, and leaves its
\* connection registered and in its receive loop.
C11_MalformedFrameDropped ==
    [][ \A c \in Conns :
          (Takes(c) /\ Malformed(raw'[c])) =>
              NoEffect /\ pc'[c] = "recv" /\ clients' = clients ]_vars

\* C20: a message frame whose user or ciphertext is missing or empty adds
\* no message, consumes no id, persists nothing and broadcasts nothing.
C20_EmptyMessageIsNoOp ==
    [][ \A c \in Conns :
          (/\ Takes(c) /\ raw'[c].json = "object" /\ raw'[c].type = "message"
           /\ (raw'[c].user = "" \/ raw'[c].ciphertext = "")) =>
              NoEffect /\ wire' = wire /\ pc'[c] = "recv" ]_vars

\* Both kinds of empty message frame were taken after a message was
\* accepted: the ledger still holds that message alone.
C20_Witness ==
    /\ raw["c1"] = MessageFrame("ann", "")
    /\ raw["c2"] = MessageFrame("", "ct")
    /\ nframes = 4
    /\ Ids(messages) = <<1>>
    /\ next_id = 2
    /\ store = Snapshot(2, messages)

\* C19: a remove request whose message or key is not in the ledger changes
\* neither ledger nor store and broadcasts nothing; one whose key is there
\* takes out the first reaction of that key and no other, keeps the order
\* of the rest, persists, and broadcasts one remove event.
C19_RemoveTakesFirstMatch ==
    [][ \A c \in Conns :
          (/\ Takes(c) /\ raw'[c].json = "object" /\ raw'[c].type = "reaction"
           /\ raw'[c].remove /\ ~Malformed(raw'[c])) =>
              LET f == raw'[c]
                  t == FindMessage(messages, f.message_id)
                  i == IF t = 0 THEN 0 ELSE FindReaction(messages[t].reactions, f.emoji, f.user)
              IN  IF i = 0
                  THEN NoEffect /\ wire' = wire /\ pc'[c] = "recv"
                  ELSE /\ messages' = [messages EXCEPT ![t].reactions = RemoveAt(@, i)]
                       /\ next_id' = next_id
                       /\ store' = Snapshot(next_id', messages')
                       /\ Len(pending') = Len(pending) + 1
                       /\ Last(pending').ev =
                             ReactionEvent(f.message_id, Reaction(f.emoji, f.user), "remove")
                       /\ SubSeq(pending', 1, Len(pending)) = pending ]_vars

\* The first of two reactions of ann was removed from message 1 and the
\* remove event was sent; a remove aimed at no message was taken as well.
C19_Witness ==
    \E c, d \in Conns :
        /\ c # d
        /\ raw[c] = ReactionFrame(1, "+1", "ann", TRUE)
        /\ raw[d] = ReactionFrame(3, "+1", "ann", TRUE)
        /\ messages[1].reactions = <<Reaction("+1", "bob"), Reaction("+1", "ann")>>
        /\ wire[c] # <<>> /\ Last(wire[c]).type = "reaction" /\ Last(wire[c]).action = "remove"
        /\ nframes = 2

(***************************************************************************)
(* The client.                                                             *)
(***************************************************************************)
\* The listener of c takes an event in this step.
Listens(c) == cpc[c] = "listen" /\ wire[c] # <<>> /\ wire'[c] = Tail(wire[c])

\* The chat log of c shows every message of the mirror, each with its
\* plaintext or, if it cannot be decrypted, with the placeholder.
RenderedInFull(c) ==
    /\ Len(rendered'[c]) = Len(mirror'[c])
    /\ \A i \in DOMAIN mirror'[c] :
          rendered'[c][i] = IF mirror'[c][i].ciphertext = "ct" THEN "plain" ELSE UnableToDecrypt

\* C12: whatever ciphertexts the server relayed, after an event is applied
\* every message of the mirror is rendered, one that cannot be decrypted as
\* the placeholder, the receive loop goes on and connection_ok is unchanged.
C12_UndecryptableIsPlaceholder ==
    [][ \A c \in Conns :
          Listens(c) => /\ RenderedInFull(c)
                        /\ cpc'[c] = "listen"
                        /\ connection_ok'[c] = connection_ok[c] ]_vars

\* A message event reaches the app of c in this step.
Arrives(c) == Listens(c) /\ Head(wire[c]).type = "message"

\* The author of the arriving message is not the local user.
FromOther(c) == Head(wire[c]).message.user # LocalUser(c)

Idle(c) == now - last_activity[c] >= idle_timeout

NothingSelected(c) == selected_message_id[c] = None /\ reaction_menu[c] = None

\* C13: an arriving message makes pending_message_count one more if and
\* only if its author is not the local user and the view is scrolled up
\* (by the user, or away from the end of the log) or the client is idle.
C13_UnreadIffScrolledOrIdle ==
    [][ \A c \in Conns :
          Arrives(c) =>
              ((pending_message_count'[c] = pending_message_count[c] + 1)
                 <=> (FromOther(c) /\ (user_scrolled_up[c] \/ ~at_bottom[c] \/ Idle(c)))) ]_vars

\* C14: with the view at the bottom and nothing selected, a message of
\* another user that arrives before the idle threshold leaves the count at 0
\* and scrolls the view; one that arrives after it makes a count of 0 into 1
\* and records the index of the message in the mirror; and an arrival that
\* leaves messages unread does not change an index already recorded.
C14_IdleArrivalIsUnread ==
    [][ \A c \in Conns :
          /\ (/\ Arrives(c) /\ FromOther(c) /\ NothingSelected(c)
              /\ at_bottom[c] /\ ~user_scrolled_up[c]) =>
                IF ~Idle(c)
                THEN pending_message_count'[c] = 0 /\ auto_scroll'[c] /\ at_bottom'[c]
                ELSE pending_message_count[c] = 0 =>
                       /\ pending_message_count'[c] = 1
                       /\ pending_start_index'[c] = Len(mirror[c])
                       /\ mirror'[c][pending_start_index'[c] + 1]
                            = from_payload(Head(wire[c]).message)
          /\ (/\ Arrives(c) /\ pending_start_index[c] # None
              /\ pending_message_count'[c] > 0) =>
                pending_start_index'[c] = pending_start_index[c] ]_vars

\* A first message of bob came before the threshold and was scrolled to, a
\* second after it: it is the one unread message, the marker is at its index.
C14_Witness ==
    /\ Len(mirror["c1"]) = 2
    /\ mirror["c1"][1].user = "bob" /\ mirror["c1"][2].user = "bob"
    /\ pending_message_count["c1"] = 1
    /\ pending_start_index["c1"] = 1
    /\ Idle("c1")
    /\ at_bottom["c1"] /\ ~user_scrolled_up["c1"] /\ NothingSelected("c1")

\* C15: when an arriving message re-renders the transcript, the view
\* scrolls to the end if and only if the user has not scrolled away from the
\* end, nothing is selected and the client is not idle.
C15_AutoScrollIffNotIdle ==
    [][ \A c \in Conns :
          Arrives(c) =>
              (auto_scroll'[c] <=> (/\ ~user_scrolled_up[c] /\ at_bottom[c]
                                    /\ NothingSelected(c) /\ ~Idle(c))) ]_vars

\* C16: a session starts with connection_ok true; when its receive loop
\* ends connection_ok is false; and once false it is never true again for
\* that session: only a newly built session has it true.
C16_ConnectionOkNeverRestored ==
    [][ \A c \in Conns :
          /\ (cpc[c] # "hello" /\ cpc'[c] = "hello") => connection_ok'[c]
          /\ (cpc[c] = "listen" /\ cpc'[c] = "closed") => ~connection_ok'[c]
          /\ ~connection_ok[c] => ~connection_ok'[c] ]_vars

\* The session on c1 lost its connection and was restarted as the session
\* on c2, which listens with connection_ok true.
C16_Witness ==
    /\ cpc["c1"] = "ended" /\ restart_requested["c1"] /\ ~connection_ok["c1"]
    /\ cpc["c2"] = "listen" /\ connection_ok["c2"]

\* C17: while connection_ok is false no step hands a frame to the
\* connection and no step changes the compose buffer.
C17_DisconnectedHasNoOutgoingEffect ==
    [][ \A c \in Conns :
          ~connection_ok[c] => sent'[c] = sent[c] /\ input_text'[c] = input_text[c] ]_vars

\* A reconnect is performed on c in this step.
Attempts(c) ==
    \/ restart_requested'[c] # restart_requested[c]
    \/ reconnect_attempted'[c] # reconnect_attempted[c]
    \/ cpc[c] # "exiting" /\ cpc'[c] = "exiting"

\* The process of c is replaced in this step.
Restarts(c) == cpc[c] = "exiting" /\ cpc'[c] = "ended"

\* C18: a reconnect is attempted only while connection_ok is false and no
\* attempt was made before, and it makes the app exit with a restart
\* requested; after an attempt no request changes anything; and the restart
\* begins a new session of the same user that has connected, waits for the
\* hello of a handler at its start, and has an empty mirror.
C18_OneReconnectRestartsFresh ==
    [][ \A c \in Conns :
          /\ Attempts(c) =>
                /\ ~connection_ok[c] /\ ~reconnect_attempted[c]
                /\ reconnect_attempted'[c] /\ restart_requested'[c]
                /\ cpc'[c] = "exiting"
          /\ reconnect_attempted[c] =>
                /\ reconnect_attempted'[c] /\ restart_requested'[c]
                /\ cpc'[c] \in {"exiting", "ended"}
          /\ Restarts(c) =>
                \E d \in Conns \ {c} :
                    /\ cpc[d] = "off" /\ cpc'[d] = "hello"
                    /\ link[d] = "none" /\ link'[d] = "open"
                    /\ pc'[d] = "start"
                    /\ mirror'[d] = <<>> /\ connection_ok'[d]
                    /\ ~reconnect_attempted'[d] /\ ~restart_requested'[d]
                    /\ LocalUser(d) = LocalUser(c) ]_vars

\* The session on c1 held a message, lost its connection and was restarted;
\* the new session on c2 has replayed the history into its mirror.
C18_Witness ==
    /\ cpc["c1"] = "ended" /\ reconnect_attempted["c1"] /\ Len(mirror["c1"]) = 1
    /\ cpc["c2"] = "listen" /\ wire["c2"] = <<>>
    /\ mirror["c2"] = messages /\ Len(messages) = 1
    /\ ~reconnect_attempted["c2"]

\* The process of c ends or is replaced in this step, after its listener
\* task was created.
ProcessEnds(c) == cpc[c] # "ended" /\ cpc'[c] = "ended" /\ listener_task[c] # "none"

\* C21: on every path by which the client process ends or is replaced, the
\* finally clause has cancelled the listener task and awaited it first.
C21_ListenerCancelledFirst ==
    [][ \A c \in Conns :
          ProcessEnds(c) => listener_task'[c] \in {"cancelled", "awaited"} ]_vars

\* C22: the mutations of different connections do not interleave.  In every
\* state a step can lead to, that is wherever another handler can run, the
\* store holds exactly the ledger (the file is absent while the ledger is
\* empty); the ledger changes only in a step that takes one frame of one
\* connection, and that step applies the frame to the whole ledger as the
\* last mutation left it, so that no message and no reaction is lost.
C22_MutationsAreSerialized ==
    [][ /\ store' = IF messages' = <<>> THEN NoFile ELSE Snapshot(next_id', messages')
        /\ ~write_failed'
        /\ (messages' # messages \/ next_id' # next_id) => \E c \in Conns : Takes(c)
        /\ \A c \in Conns :
              (Takes(c) /\ raw'[c].json = "object") =>
                  /\ messages' = Dispatch(messages, next_id, raw'[c]).messages
                  /\ next_id' = Dispatch(messages, next_id, raw'[c]).next_id ]_vars

\* Both handlers wait in the broadcast of a mutation: c1 has added a message
\* and c2 a reaction, and the store holds both.
C22_Witness ==
    /\ pc["c1"] = "bcast" /\ pc["c2"] = "bcast"
    /\ raw["c1"] = MessageFrame("ann", "ct")
    /\ raw["c2"] = ReactionFrame(1, "+1", "ann", FALSE)
    /\ Len(pending) = 2
    /\ Len(messages) = 2
    /\ messages[1].reactions = <<Reaction("+1", "ann")>>
    /\ store = Snapshot(3, messages)

\* C23: of the frames sent to a connection the first is hello and the second
\* is the history snapshot, whatever the other handlers do meanwhile.
C23_HelloThenHistoryFirst ==
    \A c \in Conns :
        /\ Len(wire[c]) >= 1 => wire[c][1].type = "hello"
        /\ Len(wire[c]) >= 2 => wire[c][2].type = "history"

\* C24: the step that applies a history event leaves as the mirror exactly
\* the messages of the event, whatever the mirror held before.
C24_HistoryReplacesMirror ==
    [][ \A c \in Conns :
          (Listens(c) /\ Head(wire[c]).type = "history") =>
              mirror'[c] = [i \in DOMAIN Head(wire[c]).messages |->
                               from_payload(Head(wire[c]).messages[i])] ]_vars

\* A reaction event with the given action reaches the app of c in this step.
ReactionArrives(c, action) ==
    Listens(c) /\ Head(wire[c]).type = "reaction" /\ Head(wire[c]).action = action

\* C25: the step that applies a reaction event with action add leaves the
\* reactions of the matching mirror message as they were when a reaction of
\* the same (emoji, user) is among them, and appends the reaction otherwise.
C25_MirrorAddIsIdempotent ==
    [][ \A c \in Conns :
          ReactionArrives(c, "add") =>
              LET ev == Head(wire[c])
                  t == FindMessage(mirror[c], ev.message_id)
              IN  t # 0 =>
                    mirror'[c][t].reactions =
                        IF FindReaction(mirror[c][t].reactions, ev.reaction.emoji,
                                        ev.reaction.user) # 0
                        THEN mirror[c][t].reactions
                        ELSE Append(mirror[c][t].reactions,
                                    Reaction(ev.reaction.emoji, ev.reaction.user)) ]_vars

\* C26: the step that applies a reaction event with action remove changes
\* nothing in the mirror when the target message is not there; otherwise it
\* takes out of the target's reactions the first one with the (emoji, user)
\* of the event, if any, and leaves every other message as it was.
C26_MirrorRemoveTakesFirstMatch ==
    [][ \A c \in Conns :
          ReactionArrives(c, "remove") =>
              LET ev == Head(wire[c])
                  t == FindMessage(mirror[c], ev.message_id)
              IN  IF t = 0 THEN mirror'[c] = mirror[c]
                  ELSE LET i == FindReaction(mirror[c][t].reactions, ev.reaction.emoji,
                                             ev.reaction.user)
                       IN  mirror'[c] =
                             IF i = 0 THEN mirror[c]
                             ELSE [mirror[c] EXCEPT ![t].reactions = RemoveAt(@, i)] ]_vars

\* ChatApp._has_reaction as the request is specified: the mirror shows a
\* reaction of the user with the emoji on the message.
Shows(msgs, message_id, emoji, user) ==
    LET t == FindMessage(msgs, message_id)
    IN  t # 0 /\ HasKey(msgs[t].reactions, emoji, user)

\* C27: a reaction request of the local user, made in the message menu or
\* as a /react command, hands exactly one reaction frame to the connection,
\* with remove true exactly when the mirror shows a reaction of that user
\* with that emoji on that message.
C27_ReactionRequestEmitsOneFrame ==
    [][ \A c \in Conns : \A emoji \in Emojis :
          /\ (connection_ok[c] /\ \E geo \in BOOLEAN : MenuReact(c, emoji, geo)) =>
                sent'[c] = Append(sent[c],
                    ReactionFrame(reaction_menu[c], emoji, LocalUser(c),
                                  Shows(mirror[c], reaction_menu[c], emoji, LocalUser(c))))
          /\ \A id \in Targets :
                (input_text[c] = <<Command(id, emoji)>> /\ KeyEnter(c)) =>
                    sent'[c] = Append(sent[c],
                        ReactionFrame(id, emoji, LocalUser(c),
                                      Shows(mirror[c], id, emoji, LocalUser(c)))) ]_vars

\* The write of the store fails in the mutation that c's handler makes in
\* this step.
WriteFails(c) ==
    /\ Takes(c) /\ raw'[c].json = "object"
    /\ Dispatch(messages, next_id, raw'[c]).ev # NoEvent
    /\ write_failed'

\* C28: when the write of the store fails during a mutation, the ledger
\* keeps the mutation, the handler stays registered and goes on to the
\* broadcast of the event to the whole registry; and the broadcast hands
\* the event to every connection of the registry that is up, after which
\* the handler receives again.
C28_WriteFailureKeepsMutation ==
    [][ /\ \A c \in Conns :
              WriteFails(c) =>
                  LET e == Dispatch(messages, next_id, raw'[c])
                  IN  /\ messages' = e.messages /\ next_id' = e.next_id
                      /\ messages' # messages
                      /\ clients' = clients /\ c \in clients'
                      /\ pc'[c] = "bcast"
                      /\ pending' = Append(pending, Job(e.ev, clients, c))
        /\ (Delivers /\ write_failed /\ Head(pending).ev.type \in {"message", "reaction"}) =>
              LET job == Head(pending)
              IN  /\ \A t \in job.targets :
                        link[t] = "open" => wire'[t] = Append(wire[t], job.ev)
                  /\ pc'[job.owner] = "recv" ]_vars

\* The write for ann's message failed; both connections were sent the
\* message event all the same, and the store does not hold the message.
C28_Witness ==
    /\ write_failed
    /\ store # Snapshot(next_id, messages)
    /\ Len(messages) = 1
    /\ pc["c1"] = "recv" /\ raw["c1"] = MessageFrame("ann", "ct")
    /\ \A c \in Conns : wire[c] # <<>> /\ Last(wire[c]) = MessageEvent(messages[1])

\* C29: in every view state the pending count is not negative, it is 0
\* exactly when no start index is recorded, and a recorded index is the
\* (0-based) index of a message of the mirror.
C29_CountAndIndexGoTogether ==
    \A c \in Conns :
        /\ pending_message_count[c] >= 0
        /\ (pending_message_count[c] = 0) <=> (pending_start_index[c] = None)
        /\ pending_start_index[c] # None =>
              /\ pending_start_index[c] >= 0
              /\ pending_start_index[c] < Len(mirror[c])

\* Two messages of bob are unread, the marker is at the first of them, and
\* the user's later key has not cleared them because the view is scrolled up.
C29_Witness ==
    /\ pending_message_count["c1"] = 2
    /\ pending_start_index["c1"] = 0
    /\ Len(mirror["c1"]) = 2
    /\ user_scrolled_up["c1"]
    /\ last_activity["c1"] = now /\ now > 0

\* C30: a message is selected exactly while the menu is open, and it is the
\* message of the menu; an event that arrives while a message is selected
\* does not scroll the view and leaves the selection; a right click on a
\* message makes it the selected one, whatever was selected before; and
\* dismissing the menu leaves no message selected.
C30_SelectionFollowsMenu ==
    [][ \A c \in Conns :
          /\ (selected_message_id'[c] = None) <=> (reaction_menu'[c] = None)
          /\ reaction_menu'[c] # None => reaction_menu'[c] = selected_message_id'[c]
          /\ (Listens(c) /\ selected_message_id[c] # None) =>
                /\ ~auto_scroll'[c]
                /\ selected_message_id'[c] = selected_message_id[c]
          /\ \A id \in Targets :
                (\E geo \in BOOLEAN : RightClick(c, id, geo)) => selected_message_id'[c] = id
          /\ (\E geo \in BOOLEAN : LeftClick(c, geo)) => selected_message_id'[c] = None ]_vars

\* Message 1 is selected and, with the client active and not scrolled up, a
\* second message has arrived meanwhile: it is unread and was not scrolled to.
C30_Witness ==
    /\ selected_message_id["c1"] = 1 /\ reaction_menu["c1"] = 1
    /\ Len(mirror["c1"]) = 2 /\ Len(rendered["c1"]) = 2
    /\ pending_message_count["c1"] = 1 /\ pending_start_index["c1"] = 1
    /\ ~auto_scroll["c1"] /\ ~user_scrolled_up["c1"]
    /\ now = 0

====
